---- MODULE Spec2Model ----
(***************************************************************************)
(* Model of drive_inventory_app.py: the enrichment step load_data and the  *)
(* rule engine ai_archive_suggestions, driven the way main() drives them   *)
(* (upload a file, load it, compute the suggestions, rerun later).         *)
(*                                                                         *)
(* Encoding of pandas values:                                              *)
(*   - a text cell (Name, Folder Path) is a tuple of one-character strings;*)
(*     a missing cell (read_csv turns an empty cell into NaN) is NaN;      *)
(*   - the Type cell is a TLA+ string, "NaN" when missing;                 *)
(*   - an optional number (Days Since Update, Folder Level) is <<n>> when  *)
(*     present and <<>> when it is NaN; a parsed timestamp is <<t>>, NaT   *)
(*     is <<>>;                                                            *)
(*   - time is counted in ticks, TicksPerDay ticks to a day.               *)
(***************************************************************************)
EXTENDS Integers, Sequences, FiniteSets, TLC

VARIABLES uploaded_file, clock, hashseed, df, suggestions, last_run, prev_run

vars == <<uploaded_file, clock, hashseed, df, suggestions, last_run, prev_run>>

-----------------------------------------------------------------------------
(* Bounds of the model *)

MaxClock == 1
NumSeeds == 2
MaxBulk == 12
MaxLen == 2

-----------------------------------------------------------------------------
(* Values *)

TicksPerDay == 2

NaN == <<"NaN">>
NaT == <<>>
None == [tag |-> "None"]

Digits == {"0", "1", "2", "3", "4", "5", "6", "7", "8", "9"}

UpperCase == <<"A","B","C","D","E","F","G","H","I","J","K","L","M",
               "N","O","P","Q","R","S","T","U","V","W","X","Y","Z">>
LowerCase == <<"a","b","c","d","e","f","g","h","i","j","k","l","m",
               "n","o","p","q","r","s","t","u","v","w","x","y","z">>

(* str.lower() on one character, then on a string *)
lower_char(c) ==
    IF \E i \in 1..Len(UpperCase) : UpperCase[i] = c
    THEN LowerCase[CHOOSE i \in 1..Len(UpperCase) : UpperCase[i] = c]
    ELSE c

lower(s) == [i \in 1..Len(s) |-> lower_char(s[i])]

(* s[i..] starts with the literal lit *)
StartsWith(s, i, lit) ==
    /\ i + Len(lit) - 1 <= Len(s)
    /\ \A k \in 1..Len(lit) : s[i + k - 1] = lit[k]

(* length of the greedy run of digits \d* starting at s[i] *)
RECURSIVE DigitRun(_, _)
DigitRun(s, i) ==
    IF i <= Len(s) /\ s[i] \in Digits THEN 1 + DigitRun(s, i + 1) ELSE 0

(* Length of the match of (_copy|_v\d+|\(\d+\)|_final|_draft) at s[i],     *)
(* alternatives tried in order; 0 when none matches there.                 *)
SuffixMatchLen(s, i) ==
    IF StartsWith(s, i, <<"_","c","o","p","y">>) THEN 5
    ELSE IF StartsWith(s, i, <<"_","v">>) /\ DigitRun(s, i + 2) > 0
         THEN 2 + DigitRun(s, i + 2)
    ELSE IF /\ StartsWith(s, i, <<"(">>)
            /\ DigitRun(s, i + 1) > 0
            /\ StartsWith(s, i + 1 + DigitRun(s, i + 1), <<")">>)
         THEN 2 + DigitRun(s, i + 1)
    ELSE IF StartsWith(s, i, <<"_","f","i","n","a","l">>) THEN 6
    ELSE IF StartsWith(s, i, <<"_","d","r","a","f","t">>) THEN 6
    ELSE 0

(* re.sub(pattern, '', s): leftmost non-overlapping matches removed in one *)
(* left-to-right scan; the result is not rescanned.                        *)
RECURSIVE SubSuffixes(_, _)
SubSuffixes(s, i) ==
    IF i > Len(s) THEN <<>>
    ELSE IF SuffixMatchLen(s, i) > 0 THEN SubSuffixes(s, i + SuffixMatchLen(s, i))
    ELSE <<s[i]>> \o SubSuffixes(s, i + 1)

name_clean(name) == SubSuffixes(lower(name), 1)

(* the literals of \.(pdf|docx?|xlsx?|pptx?)$ *)
Extensions ==
    { <<".","p","d","f">>,
      <<".","d","o","c">>, <<".","d","o","c","x">>,
      <<".","x","l","s">>, <<".","x","l","s","x">>,
      <<".","p","p","t">>, <<".","p","p","t","x">> }

EndsWith(s, lit) ==
    /\ Len(lit) <= Len(s)
    /\ StartsWith(s, Len(s) - Len(lit) + 1, lit)

(* re.sub(r'\.(pdf|docx?|xlsx?|pptx?)$', '', s): the match is anchored at  *)
(* the end, the leftmost one (the longest suffix) is removed.              *)
StripExtension(s) ==
    IF \E e \in Extensions : EndsWith(s, e)
    THEN LET e == CHOOSE x \in Extensions :
                     /\ EndsWith(s, x)
                     /\ \A y \in Extensions : EndsWith(s, y) => Len(y) <= Len(x)
         IN SubSeq(s, 1, Len(s) - Len(e))
    ELSE s

name_pattern(name) == StripExtension(name_clean(name))

-----------------------------------------------------------------------------
(* load_data *)

Root == <<"R","o","o","t">>

(* A Last Updated cell: a date string denoting the instant t, or text that *)
(* is no date (also the missing cell).                                     *)
Date(t) == <<"date", t>>
BadDate == <<"text">>

(* pd.to_datetime(..., errors='coerce') on one cell *)
to_datetime(cell) == IF cell[1] = "date" THEN <<cell[2]>> ELSE NaT

(* (datetime.now() - df['Last Updated']).dt.days on one cell: whole days,   *)
(* rounded towards minus infinity; NaN for NaT.                             *)
days_since_update(now, ts) ==
    IF ts = NaT THEN <<>> ELSE <<(now - ts[1]) \div TicksPerDay>>

(* categorize_age with the first threshold exclusive *)
categorize_age_strict(days) ==
    IF days = <<>> THEN "Unknown"
    ELSE IF days[1] < 30 THEN "Recent (0-30 days)"
    ELSE IF days[1] <= 90 THEN "Moderately Old (1-3 months)"
    ELSE IF days[1] <= 365 THEN "Old (3-12 months)"
    ELSE "Very Old (1+ years)"

categorize_age(days) ==
    IF days = <<>> THEN "Unknown"
    ELSE IF days[1] <= 30 THEN "Recent (0-30 days)"
    ELSE IF days[1] <= 90 THEN "Moderately Old (1-3 months)"
    ELSE IF days[1] <= 365 THEN "Old (3-12 months)"
    ELSE "Very Old (1+ years)"

(* Series.str.count('/') on one cell; NaN stays NaN *)
str_count(path) ==
    IF path = NaN THEN <<>>
    ELSE <<Cardinality({i \in 1..Len(path) : path[i] = "/"})>>

(* Series.str.extract(r'(.+)/[^/]+$') on one cell: re.search, so the        *)
(* leftmost start; group 1 is what .+ matched. NaN when nothing matches.    *)
str_extract(path) ==
    IF path = NaN THEN NaN
    ELSE LET matches == { m \in (1..Len(path)) \X (1..Len(path)) :
                             /\ m[1] < m[2]
                             /\ path[m[2]] = "/"
                             /\ m[2] < Len(path)
                             /\ \A j \in (m[2] + 1)..Len(path) : path[j] # "/" }
         IN IF matches = {} THEN NaN
            ELSE LET m == CHOOSE x \in matches : \A y \in matches : x[1] <= y[1]
                 IN SubSeq(path, m[1], m[2] - 1)

fillna(cell, value) == IF cell = NaN THEN value ELSE cell

(* the columns load_data sets on one row *)
enrich_row(row, now) ==
    LET last_updated == to_datetime(row.LastUpdated)
        days == days_since_update(now, last_updated)
    IN [ Name            |-> row.Name,
         Type            |-> row.Type,
         LastUpdated     |-> last_updated,
         FolderPath      |-> row.FolderPath,
         ContentCount    |-> row.ContentCount,
         DaysSinceUpdate |-> days,
         AgeCategory     |-> categorize_age(days),
         FolderLevel     |-> str_count(row.FolderPath),
         ParentFolder    |-> fillna(str_extract(row.FolderPath), Root) ]

(* load_data that drops the rows whose date did not parse *)
load_data_dropna(file, now) ==
    IF file # None
    THEN LET rows == [i \in 1..Len(file.rows) |-> enrich_row(file.rows[i], now)]
             parsed(r) == r.LastUpdated # NaT
         IN [tag |-> "df", rows |-> SelectSeq(rows, parsed)]
    ELSE None

(* load_data that returns the frame still in memory instead of loading *)
load_data_cached(file, now) ==
    IF file # None
    THEN IF df # None
         THEN df
         ELSE [tag |-> "df", rows |-> [i \in 1..Len(file.rows) |-> enrich_row(file.rows[i], now)]]
    ELSE None

(* load_data(uploaded_file) run when datetime.now() = now *)
load_data(file, now) ==
    IF file # None
    THEN [tag |-> "df", rows |-> [i \in 1..Len(file.rows) |-> enrich_row(file.rows[i], now)]]
    ELSE None

-----------------------------------------------------------------------------
(* ai_archive_suggestions *)

VeryOldCap == 10
DupCap == 10
LargeOldCap == 5

(* lst[:n] *)
Take(lst, n) == SubSeq(lst, 1, IF Len(lst) < n THEN Len(lst) ELSE n)

(* frame['Name'].tolist() *)
Names(rows) == [i \in 1..Len(rows) |-> rows[i].Name]

is_very_old_file(r) == r.AgeCategory = "Very Old (1+ years)" /\ r.Type = "File"
very_old_files(rows) == SelectSeq(rows, is_very_old_file)

is_empty_folder(r) == r.Type = "Folder" /\ r.ContentCount = 0
empty_folders(rows) == SelectSeq(rows, is_empty_folder)

is_file(r) == r.Type = "File"
file_df(rows) == SelectSeq(rows, is_file)

is_old_folder(r) ==
    /\ r.Type = "Folder"
    /\ r.AgeCategory \in {"Old (3-12 months)", "Very Old (1+ years)"}
    /\ r.ContentCount > 10
old_folders(rows) == SelectSeq(rows, is_old_folder)

(* the loop body recording only the first-seen of two colliding names *)
scan_row_first_only(acc, name) ==
    LET pattern == name_pattern(name)
    IN IF pattern \in DOMAIN acc.seen_patterns
       THEN [ seen_patterns |-> acc.seen_patterns,
              duplicate_candidates |->
                  acc.duplicate_candidates \o <<acc.seen_patterns[pattern]>> ]
       ELSE [ seen_patterns |-> (pattern :> name) @@ acc.seen_patterns,
              duplicate_candidates |-> acc.duplicate_candidates ]

(* the loop body recording only the later of two colliding names *)
scan_row_later_only(acc, name) ==
    LET pattern == name_pattern(name)
    IN IF pattern \in DOMAIN acc.seen_patterns
       THEN [ seen_patterns |-> acc.seen_patterns,
              duplicate_candidates |-> acc.duplicate_candidates \o <<name>> ]
       ELSE [ seen_patterns |-> (pattern :> name) @@ acc.seen_patterns,
              duplicate_candidates |-> acc.duplicate_candidates ]

(* One iteration of the loop over file_df.iterrows(): acc holds the dict    *)
(* seen_patterns (a function from patterns to names) and the list           *)
(* duplicate_candidates.                                                    *)
scan_row(acc, name) ==
    LET pattern == name_pattern(name)
    IN IF pattern \in DOMAIN acc.seen_patterns
       THEN [ seen_patterns |-> acc.seen_patterns,
              duplicate_candidates |->
                  acc.duplicate_candidates \o <<acc.seen_patterns[pattern], name>> ]
       ELSE [ seen_patterns |-> (pattern :> name) @@ acc.seen_patterns,
              duplicate_candidates |-> acc.duplicate_candidates ]

RECURSIVE scan_files(_, _, _)
scan_files(files, i, acc) ==
    IF i > Len(files) THEN acc
    ELSE scan_files(files, i + 1, scan_row(acc, files[i].Name))

duplicate_candidates(rows) ==
    scan_files(file_df(rows), 1,
               [seen_patterns |-> <<>>, duplicate_candidates |-> <<>>]).duplicate_candidates

(* set(lst) *)
ToSet(lst) == {lst[i] : i \in 1..Len(lst)}

(* The file names the datasets are built from *)
NamePool ==
    << <<"p","l","a","n","_","f","i","n","a","l",".","d","o","c","x">>,
       <<"p","l","a","n","_","v","2",".","d","o","c","x">>,
       <<"p","l","a","n",".","d","o","c","x">>,
       <<"P","l","a","n","_","c","o","p","y",".","p","d","f">>,
       <<"p","l","a","n","(","1",")",".","d","o","c">>,
       <<"p","l","a","n","_","d","r","a","f","t",".","x","l","s","x">>,
       <<"p","l","a","n","_","v","1","0",".","p","p","t">>,
       <<"p","l","a","n",".","p","p","t","x">>,
       <<"p","l","a","n",".","X","L","S">>,
       <<"p","l","a","n">>,
       <<"P","L","A","N","_","F","I","N","A","L">>,
       <<"p","l","a","n","_","v",".","p","d","f">>,
       <<"a",".","p","d","f">>,
       <<"p","l","a","n",".","t","x","t">>,
       <<"p","l","a","n",".","p","d","f",".","p","d","f">>,
       <<"p","l","a","n","(",")",".","d","o","c">>,
       <<"a","_","f","i","_","c","o","p","y","n","a","l">> >>

(* Iteration order of a set of str: the order of the elements' hashes,      *)
(* which CPython salts per process (hashseed). The salted hash is modelled  *)
(* as a permutation of the pool chosen by the seed.                          *)
HashPrime == 19

NameIndex(name) == CHOOSE i \in 1..Len(NamePool) : NamePool[i] = name

hash(name, seed) ==
    (NameIndex(name) * (IF seed = 0 THEN 1 ELSE HashPrime - seed)) % HashPrime

(* list(S) for a set S of names under the given hash seed *)
RECURSIVE list_of_set(_, _)
list_of_set(S, seed) ==
    IF S = {} THEN <<>>
    ELSE LET first == CHOOSE x \in S : \A y \in S : hash(x, seed) <= hash(y, seed)
         IN <<first>> \o list_of_set(S \ {first}, seed)

Group(category, count, reason, confidence, items) ==
    [ category |-> category, count |-> count, reason |-> reason,
      confidence |-> confidence, items |-> items ]

(* rule 1 reporting the number of items shown as its count *)
rule_very_old_files_capped(rows) ==
    IF Len(very_old_files(rows)) > 0
    THEN << Group("Very Old Files", Len(Take(Names(very_old_files(rows)), VeryOldCap)),
                  "Files not accessed in over 1 year", "High",
                  Take(Names(very_old_files(rows)), VeryOldCap)) >>
    ELSE <<>>

rule_very_old_files(rows) ==
    IF Len(very_old_files(rows)) > 0
    THEN << Group("Very Old Files", Len(very_old_files(rows)),
                  "Files not accessed in over 1 year", "High",
                  Take(Names(very_old_files(rows)), VeryOldCap)) >>
    ELSE <<>>

rule_empty_folders(rows) ==
    IF Len(empty_folders(rows)) > 0
    THEN << Group("Empty Folders", Len(empty_folders(rows)),
                  "Folders containing no files", "High",
                  Names(empty_folders(rows))) >>
    ELSE <<>>

(* rule 3 counting the collisions instead of the names *)
rule_potential_duplicates_pairs(rows, seed) ==
    IF Len(file_df(rows)) > 0 /\ duplicate_candidates(rows) # <<>>
    THEN << Group("Potential Duplicates",
                  Len(duplicate_candidates(rows)) \div 2,
                  "Files with similar names that might be duplicates", "Medium",
                  Take(list_of_set(ToSet(duplicate_candidates(rows)), seed), DupCap)) >>
    ELSE <<>>

rule_potential_duplicates(rows, seed) ==
    IF Len(file_df(rows)) > 0 /\ duplicate_candidates(rows) # <<>>
    THEN << Group("Potential Duplicates",
                  Cardinality(ToSet(duplicate_candidates(rows))),
                  "Files with similar names that might be duplicates", "Medium",
                  Take(list_of_set(ToSet(duplicate_candidates(rows)), seed), DupCap)) >>
    ELSE <<>>

rule_large_old_folders(rows) ==
    IF Len(old_folders(rows)) > 0
    THEN << Group("Large Old Folders", Len(old_folders(rows)),
                  "Folders with many files that haven't been updated recently", "Medium",
                  Take(Names(old_folders(rows)), LargeOldCap)) >>
    ELSE <<>>

(* the engine with rules 2 and 3 evaluated in the other order *)
ai_archive_suggestions_reordered(frame, seed) ==
    IF \E i \in 1..Len(frame.rows) :
          frame.rows[i].Type = "File" /\ frame.rows[i].Name = NaN
    THEN [tag |-> "AttributeError"]
    ELSE [ tag |-> "suggestions",
           groups |-> rule_very_old_files(frame.rows)
                      \o rule_potential_duplicates(frame.rows, seed)
                      \o rule_empty_folders(frame.rows)
                      \o rule_large_old_folders(frame.rows) ]

(* row['Name'].lower() raises AttributeError on a File row whose Name is    *)
(* NaN (a float); the call then returns nothing.                            *)
ai_archive_suggestions(frame, seed) ==
    IF \E i \in 1..Len(frame.rows) :
          frame.rows[i].Type = "File" /\ frame.rows[i].Name = NaN
    THEN [tag |-> "AttributeError"]
    ELSE [ tag |-> "suggestions",
           groups |-> rule_very_old_files(frame.rows)
                      \o rule_empty_folders(frame.rows)
                      \o rule_potential_duplicates(frame.rows, seed)
                      \o rule_large_old_folders(frame.rows) ]

-----------------------------------------------------------------------------
(* The uploads the model draws from *)

Row(name, type, last_updated, folder_path, content_count) ==
    [ Name |-> name, Type |-> type, LastUpdated |-> last_updated,
      FolderPath |-> folder_path, ContentCount |-> content_count ]

(* instants, in ticks relative to the start of the run (clock = 0) *)
TimeStamps == {2, 0, -60, -61, -62, -180, -182, -730, -731, -732, -800}

LastUpdatedCells == {Date(t) : t \in TimeStamps} \cup {BadDate}

PathPool ==
    { <<"a">>, <<"a","/","b">>, <<"a","/","b","/","c">>, <<"a","/">>,
      <<"a","/","/","b">>, <<"a","/","b","/">>, NaN }

PoolName(i) == NamePool[((i - 1) % Len(NamePool)) + 1]

(* one row, every type, timestamp and content count *)
Singles ==
    { <<Row(PoolName(13), type, cell, <<"a","/","b">>, count)>> :
         type \in {"File", "Folder"}, cell \in LastUpdatedCells, count \in {0, 10, 11} }

(* one row, every folder path *)
PathProbes ==
    { <<Row(PoolName(10), "Folder", Date(-800), path, 3)>> : path \in PathPool }

(* rows that lack a name or a type, or carry an unknown type *)
BrokenRows ==
    { Row(NaN, "File", Date(-800), <<"a">>, 0),
      Row(NaN, "Folder", Date(-800), <<"a">>, 0),
      Row(PoolName(3), "NaN", Date(-800), <<"a">>, 0),
      Row(PoolName(3), "Shortcut", Date(-800), <<"a">>, 0) }

GoodRow == Row(PoolName(13), "File", Date(-800), <<"a","/","b">>, 0)

Broken ==
    { <<b>> : b \in BrokenRows } \cup { <<GoodRow, b>> : b \in BrokenRows }
    \cup { <<b, GoodRow>> : b \in BrokenRows }

(* two files, every pair of names (a name may come twice) *)
Pairs ==
    { << Row(PoolName(p[1]), "File", Date(0), <<"a">>, 0),
         Row(PoolName(p[2]), "File", Date(0), <<"a">>, 0) >> :
         p \in { q \in (1..Len(NamePool)) \X (1..Len(NamePool)) : q[1] <= q[2] } }

(* n rows of one sort, the names running through the pool *)
BulkRow(sort, i) ==
    CASE sort = "old files"     -> Row(PoolName(i), "File", Date(-800), <<"a">>, 0)
      [] sort = "big folders"   -> Row(PoolName(i), "Folder", Date(-182), <<"a","/","b">>, 11)
      [] sort = "empty folders" -> Row(PoolName(i), "Folder", Date(0), <<"a">>, 0)
      [] sort = "mixed"         -> CASE i % 3 = 1 -> Row(PoolName(i), "File", Date(-800), <<"a">>, 0)
                                     [] i % 3 = 2 -> Row(PoolName(i), "Folder", Date(-800), <<"a">>, 11)
                                     [] i % 3 = 0 -> Row(PoolName(i), "Folder", Date(0), <<"a">>, 0)

Bulk ==
    { [i \in 1..n |-> BulkRow(sort, i)] :
         sort \in {"old files", "big folders", "empty folders", "mixed"},
         n \in 0..MaxBulk }

(* short sequences over one row per rule *)
Letters ==
    { Row(PoolName(13), "File", Date(-800), <<"a">>, 0),
      Row(PoolName(10), "Folder", Date(0), <<"a">>, 0),
      Row(PoolName(1), "File", Date(0), <<"a">>, 0),
      Row(PoolName(2), "File", Date(0), <<"a">>, 0),
      Row(PoolName(10), "Folder", Date(-182), <<"a">>, 15) }

Mixed == UNION { [1..n -> Letters] : n \in 1..MaxLen }

Uploads == Singles \cup PathProbes \cup Broken \cup Pairs \cup Bulk \cup Mixed

-----------------------------------------------------------------------------
(* The application *)

Run(file, now, frame, result) ==
    [file |-> file, now |-> now, df |-> frame, suggestions |-> result]

Init ==
    /\ uploaded_file = None
    /\ clock = 0
    /\ hashseed \in 0..(NumSeeds - 1)
    /\ df = None
    /\ suggestions = None
    /\ last_run = None
    /\ prev_run = None

(* st.file_uploader returns a file *)
Upload ==
    /\ uploaded_file = None
    /\ \E rows \in Uploads : uploaded_file' = [tag |-> "file", rows |-> rows]
    /\ UNCHANGED <<clock, hashseed, df, suggestions, last_run, prev_run>>

(* one run of main() with a file uploaded and the filters at their defaults *)
main ==
    /\ uploaded_file # None
    /\ df' = load_data(uploaded_file, clock)
    /\ suggestions' = IF df' = None THEN None ELSE ai_archive_suggestions(df', hashseed)
    /\ last_run' = Run(uploaded_file, clock, df', suggestions')
    /\ prev_run' = last_run
    /\ UNCHANGED <<uploaded_file, clock, hashseed>>

(* time passes *)
Tick ==
    /\ clock < MaxClock
    /\ clock' = clock + 1
    /\ UNCHANGED <<uploaded_file, hashseed, df, suggestions, last_run, prev_run>>

(* the server process is started anew: a new hash seed, nothing in memory; *)
(* the same file is submitted again                                         *)
Restart ==
    /\ \E seed \in 0..(NumSeeds - 1) : seed # hashseed /\ hashseed' = seed
    /\ df' = None
    /\ suggestions' = None
    /\ UNCHANGED <<uploaded_file, clock, last_run, prev_run>>

(* the file is removed from the uploader *)
Clear ==
    /\ uploaded_file # None
    /\ uploaded_file' = None
    /\ df' = None
    /\ suggestions' = None
    /\ last_run' = None
    /\ prev_run' = None
    /\ UNCHANGED <<clock, hashseed>>

Next == Upload \/ main \/ Tick \/ Restart \/ Clear

Spec == Init /\ [][Next]_vars

-----------------------------------------------------------------------------
(* Properties *)

Loaded == df # None
Suggested == suggestions # None /\ suggestions.tag = "suggestions"
Groups == suggestions.groups

Min(a, b) == IF a < b THEN a ELSE b

(* the group of a category among the emitted groups, as a set *)
GroupsOf(category) == { Groups[i] : i \in { k \in 1..Len(Groups) : Groups[k].category = category } }

(* C1: every loaded record's age category follows from its days since     *)
(* update alone: NaN (unparsable date) gives Unknown, days <= 30 (negative *)
(* too) Recent, 31..90 Moderately Old, 91..365 Old, above 365 Very Old;    *)
(* so 30, 90, 365, 366 give Recent, Moderately Old, Old, Very Old.         *)
AgeOfDays(days) ==
    CASE days = <<>> -> "Unknown"
      [] days # <<>> /\ days[1] <= 30 -> "Recent (0-30 days)"
      [] days # <<>> /\ 30 < days[1] /\ days[1] <= 90 -> "Moderately Old (1-3 months)"
      [] days # <<>> /\ 90 < days[1] /\ days[1] <= 365 -> "Old (3-12 months)"
      [] days # <<>> /\ days[1] > 365 -> "Very Old (1+ years)"

C1_AgeBucket ==
    Loaded =>
        \A i \in 1..Len(df.rows) :
            LET r == df.rows[i] IN
            /\ r.AgeCategory = AgeOfDays(r.DaysSinceUpdate)
            /\ (r.DaysSinceUpdate = <<>>) = (r.LastUpdated = NaT)
            /\ r.DaysSinceUpdate = <<30>> => r.AgeCategory = "Recent (0-30 days)"
            /\ r.DaysSinceUpdate = <<90>> => r.AgeCategory = "Moderately Old (1-3 months)"
            /\ r.DaysSinceUpdate = <<365>> => r.AgeCategory = "Old (3-12 months)"
            /\ r.DaysSinceUpdate = <<366>> => r.AgeCategory = "Very Old (1+ years)"

C1_Witness ==
    /\ Loaded
    /\ \E i \in 1..Len(df.rows) :
          df.rows[i].DaysSinceUpdate = <<30>> /\ df.rows[i].AgeCategory = "Recent (0-30 days)"

ValidRow(r) == r.Name # NaN /\ r.Type \in {"File", "Folder"}

C3_Validation ==
    (last_run # None /\ \E i \in 1..Len(last_run.file.rows) : ~ValidRow(last_run.file.rows[i]))
        => last_run.df.tag # "df"

(* C4: the engine returns at most one group per rule, in the order Very    *)
(* Old Files, Empty Folders, Potential Duplicates, Large Old Folders, and  *)
(* a rule's group is there exactly when the rule matched a record; an      *)
(* empty frame gives no group and no error.                                *)
RuleOrder ==
    <<"Very Old Files", "Empty Folders", "Potential Duplicates", "Large Old Folders">>

RuleMatched(category, rows) ==
    CASE category = "Very Old Files" ->
            \E i \in 1..Len(rows) :
               rows[i].Type = "File" /\ rows[i].AgeCategory = "Very Old (1+ years)"
      [] category = "Empty Folders" ->
            \E i \in 1..Len(rows) : rows[i].Type = "Folder" /\ rows[i].ContentCount = 0
      [] category = "Potential Duplicates" ->
            \E i, j \in 1..Len(rows) :
               /\ i < j
               /\ rows[i].Type = "File" /\ rows[j].Type = "File"
               /\ name_pattern(rows[i].Name) = name_pattern(rows[j].Name)
      [] category = "Large Old Folders" ->
            \E i \in 1..Len(rows) :
               /\ rows[i].Type = "Folder"
               /\ rows[i].AgeCategory \in {"Old (3-12 months)", "Very Old (1+ years)"}
               /\ rows[i].ContentCount > 10

C4_GroupsPerRule ==
    /\ Suggested =>
          LET matched(category) == RuleMatched(category, df.rows)
          IN [i \in 1..Len(Groups) |-> Groups[i].category] = SelectSeq(RuleOrder, matched)
    /\ (Loaded /\ df.rows = <<>>) => (suggestions = [tag |-> "suggestions", groups |-> <<>>])

C4_Witness ==
    /\ Suggested
    /\ Len(Groups) = 4
    /\ Groups[1].category = "Very Old Files"
    /\ Groups[4].category = "Large Old Folders"

(* C5: every group the engine emits has count >= the number of its items.  *)
C5_CountCoversItems ==
    Suggested => \A i \in 1..Len(Groups) : Groups[i].count >= Len(Groups[i].items)

C5_Witness ==
    /\ Suggested
    /\ \E i \in 1..Len(Groups) :
          /\ Groups[i].category = "Potential Duplicates"
          /\ Groups[i].count > Len(Groups[i].items)

(* C6: the Potential Duplicates group counts the distinct names of the     *)
(* File records whose pattern another File record shares; its items are    *)
(* min(count, 10) different names out of these; the group is absent        *)
(* exactly when no two File records share a pattern. plan_final.docx and   *)
(* plan_v2.docx give count 2 and both names.                               *)
SharedNames(rows) ==
    { rows[i].Name : i \in { k \in 1..Len(rows) :
         /\ rows[k].Type = "File"
         /\ \E j \in 1..Len(rows) :
               /\ j # k
               /\ rows[j].Type = "File"
               /\ name_pattern(rows[j].Name) = name_pattern(rows[k].Name) } }

ScenarioC ==
    /\ Len(df.rows) = 2
    /\ df.rows[1].Type = "File" /\ df.rows[1].Name = NamePool[1]
    /\ df.rows[2].Type = "File" /\ df.rows[2].Name = NamePool[2]

C6_Duplicates ==
    Suggested =>
        LET shared == SharedNames(df.rows)
            dups == GroupsOf("Potential Duplicates")
        IN /\ (dups = {}) = (shared = {})
           /\ \A g \in dups :
                 /\ g.count = Cardinality(shared)
                 /\ ToSet(g.items) \subseteq shared
                 /\ Len(g.items) = Min(g.count, 10)
                 /\ Cardinality(ToSet(g.items)) = Len(g.items)
           /\ ScenarioC =>
                 \E g \in dups : g.count = 2 /\ ToSet(g.items) = {NamePool[1], NamePool[2]}

C6_Witness ==
    /\ Suggested
    /\ ScenarioC
    /\ \E g \in GroupsOf("Potential Duplicates") : g.count = 2

(* C7: for Very Old Files, Empty Folders and Large Old Folders, count is   *)
(* the number of matching records and items are the names of the first     *)
(* min(count, cap) of them in the order of the frame, the cap being 10,    *)
(* none, and 5.                                                             *)
RECURSIVE MatchingNames(_, _, _)
MatchingNames(rows, i, category) ==
    IF i > Len(rows) THEN <<>>
    ELSE (IF RuleMatched(category, <<rows[i]>>) THEN <<rows[i].Name>> ELSE <<>>)
         \o MatchingNames(rows, i + 1, category)

C7_Rule(category, cap) ==
    LET names == MatchingNames(df.rows, 1, category)
    IN /\ names # <<>> => \E g \in GroupsOf(category) : TRUE
       /\ \A g \in GroupsOf(category) :
             /\ g.count = Len(names)
             /\ g.items = SubSeq(names, 1, Min(Len(names), cap))

C7_CountAndItems ==
    Suggested =>
        /\ C7_Rule("Very Old Files", 10)
        /\ C7_Rule("Empty Folders", Len(df.rows))
        /\ C7_Rule("Large Old Folders", 5)

C7_Witness ==
    /\ Suggested
    /\ \E g \in GroupsOf("Very Old Files") : g.count = 11 /\ Len(g.items) = 10

(* C8: two calls of the engine on the same frame return the same groups:   *)
(* the same categories, counts and items in the same order.                *)
C8_Deterministic ==
    ( /\ prev_run # None /\ last_run # None
      /\ prev_run.suggestions.tag = "suggestions"
      /\ last_run.suggestions.tag = "suggestions"
      /\ prev_run.df = last_run.df )
        => prev_run.suggestions = last_run.suggestions

(* C9: loading the same upload again gives every record the same days      *)
(* since update, age category, folder level and parent folder.             *)
Derived(frame) ==
    [i \in 1..Len(frame.rows) |->
        << frame.rows[i].DaysSinceUpdate, frame.rows[i].AgeCategory,
           frame.rows[i].FolderLevel, frame.rows[i].ParentFolder >>]

PathDerived(frame) ==
    [i \in 1..Len(frame.rows) |-> <<frame.rows[i].FolderLevel, frame.rows[i].ParentFolder>>]

SameUploadTwice == prev_run # None /\ last_run # None /\ prev_run.file = last_run.file

Slashes(path) == {i \in 1..Len(path) : path[i] = "/"}

LastSlash(path) == CHOOSE i \in Slashes(path) : \A j \in Slashes(path) : j <= i

C10_ParentAndLevel ==
    Loaded =>
        \A i \in 1..Len(df.rows) :
            LET r == df.rows[i]
            IN IF r.FolderPath = NaN
               THEN r.ParentFolder = Root
               ELSE /\ r.FolderLevel = <<Cardinality(Slashes(r.FolderPath))>>
                    /\ r.ParentFolder = IF Slashes(r.FolderPath) = {} THEN Root
                                        ELSE SubSeq(r.FolderPath, 1, LastSlash(r.FolderPath) - 1)

(* C11: whenever the engine emits a Potential Duplicates group, its count  *)
(* is at least 2, also when several File records carry the same name.      *)
C11_AtLeastTwo ==
    Suggested => \A g \in GroupsOf("Potential Duplicates") : g.count >= 2

(* C11 as amended: whenever the engine emits a Potential Duplicates group, *)
(* its count is at least 1, and at least 2 when two File records with      *)
(* different names share a pattern.                                        *)
TwoNamesCollide(rows) ==
    \E i, j \in 1..Len(rows) :
        /\ rows[i].Type = "File" /\ rows[j].Type = "File"
        /\ rows[i].Name # rows[j].Name
        /\ name_pattern(rows[i].Name) = name_pattern(rows[j].Name)

C11_AtLeastTwoDistinctNames ==
    Suggested =>
        \A g \in GroupsOf("Potential Duplicates") :
            /\ g.count >= 1
            /\ TwoNamesCollide(df.rows) => g.count >= 2

C11_Witness ==
    /\ Suggested
    /\ Len(df.rows) = 2
    /\ df.rows[1].Type = "File" /\ df.rows[2].Type = "File"
    /\ df.rows[1].Name = df.rows[2].Name
    /\ \E g \in GroupsOf("Potential Duplicates") : g.count = 1 /\ g.items = <<df.rows[1].Name>>

====
